---------------------------- MODULE Spec2Model ----------------------------
(***************************************************************************)
(* Model of the prospection pipeline of scrap-email:                       *)
(*   url_processor.py  (extract_emails_from_url, process_urls)             *)
(*   clean_emails.py   (clean_email, clean_emails_file)                    *)
(*   email_sender.py   (send_email, send_emails)                           *)
(*   main.py           (main)                                              *)
(* Python strings are modelled as sequences of one-character strings, so   *)
(* that split, join, replace, strip, lower and the two regular expressions *)
(* are computed the way the code computes them.                            *)
(***************************************************************************)
EXTENDS Integers, Sequences, FiniteSets, TLC

(***************************************************************************)
(* Characters and Python string primitives                                 *)
(***************************************************************************)
LowerSeq == << "a","b","c","d","e","f","g","h","i","j","k","l","m",
               "n","o","p","q","r","s","t","u","v","w","x","y","z" >>
UpperSeq == << "A","B","C","D","E","F","G","H","I","J","K","L","M",
               "N","O","P","Q","R","S","T","U","V","W","X","Y","Z" >>
LowerL == { LowerSeq[k] : k \in DOMAIN LowerSeq }
UpperL == { UpperSeq[k] : k \in DOMAIN UpperSeq }
Letter == LowerL \cup UpperL
Digit  == { "0","1","2","3","4","5","6","7","8","9" }
Alnum  == Letter \cup Digit

\* Python's None (csv.DictReader's restval, and row['emails'] = None): a value
\* that is no string of characters.
NONE == << "<None>" >>

\* bool(x) of a str-or-None value: None and '' are falsy.
Truthy(v) == v /= NONE /\ v /= << >>

\* str.lower(), one character
LowerChar(c) ==
    IF c \in UpperL
    THEN LowerSeq[CHOOSE k \in DOMAIN UpperSeq : UpperSeq[k] = c]
    ELSE IF c = "À" THEN "à"
    ELSE c

\* str.lower()
LowerStr(s) == [k \in DOMAIN s |-> LowerChar(s[k])]

\* s[i:i+len(p)] == p   (1-based i)
MatchAt(p, s, i) ==
    /\ i >= 1
    /\ i + Len(p) - 1 <= Len(s)
    /\ \A k \in 1..Len(p) : s[i + k - 1] = p[k]

\* s.startswith(p)
StartsWith(s, p) == MatchAt(p, s, 1)

\* p in s
Contains(p, s) == \E i \in 1..(Len(s) + 1) : MatchAt(p, s, i)

\* s[i:]  (1-based i)
From(s, i) == IF i > Len(s) THEN << >> ELSE SubSeq(s, i, Len(s))

\* s.replace(old, new): leftmost, non-overlapping occurrences; old is never
\* empty here (it is always a "{{key}}" placeholder).
RECURSIVE Replace(_, _, _)
Replace(s, old, new) ==
    IF s = << >> THEN << >>
    ELSE IF MatchAt(old, s, 1)
         THEN new \o Replace(From(s, Len(old) + 1), old, new)
         ELSE << s[1] >> \o Replace(Tail(s), old, new)

\* s.split(sep) for a one-character separator: always at least one piece.
RECURSIVE Split(_, _)
Split(s, sep) ==
    IF \A k \in DOMAIN s : s[k] /= sep THEN << s >>
    ELSE LET j == CHOOSE k \in DOMAIN s :
                      s[k] = sep /\ \A m \in 1..(k - 1) : s[m] /= sep
         IN  << SubSeq(s, 1, j - 1) >> \o Split(From(s, j + 1), sep)

\* sep.join(pieces)
RECURSIVE Join(_, _)
Join(pieces, sep) ==
    IF pieces = << >> THEN << >>
    ELSE IF Len(pieces) = 1 THEN pieces[1]
    ELSE pieces[1] \o << sep >> \o Join(Tail(pieces), sep)

\* str.strip(): leading and trailing whitespace removed
WhiteSpace == { " " }
RECURSIVE LStrip(_)
LStrip(s) == IF s /= << >> /\ s[1] \in WhiteSpace THEN LStrip(Tail(s)) ELSE s
RECURSIVE RStrip(_)
RStrip(s) ==
    IF s /= << >> /\ s[Len(s)] \in WhiteSpace
    THEN RStrip(SubSeq(s, 1, Len(s) - 1)) ELSE s
Strip(s) == LStrip(RStrip(s))

\* url.rstrip('/')
RECURSIVE RStripSlash(_)
RStripSlash(s) ==
    IF s /= << >> /\ s[Len(s)] = "/"
    THEN RStripSlash(SubSeq(s, 1, Len(s) - 1)) ELSE s

\* Length of the longest run of characters of class C starting at s[i].
RECURSIVE RunLen(_, _, _)
RunLen(s, i, C) ==
    IF i <= Len(s) /\ s[i] \in C THEN 1 + RunLen(s, i + 1, C) ELSE 0

(***************************************************************************)
(* clean_emails.py: the strict pattern and clean_email                     *)
(*   ([a-zA-Z0-9_.+-]+@[a-zA-Z0-9-]+\.[a-zA-Z0-9-]{2,6})\b                 *)
(***************************************************************************)
StrictLocal  == Alnum \cup { "_", ".", "+", "-" }
StrictDomain == Alnum \cup { "-" }
StrictTld    == Alnum \cup { "-" }
StrictTldMin == 2
StrictTldMax == 6
\* \w of the re module on the characters of the model
WordChar     == Alnum \cup { "_" }

\* \b between s[e-1] and s[e] (the end of the string counts as a non-word)
WordBoundary(s, e) ==
    LET before == e - 1 >= 1 /\ e - 1 <= Len(s) /\ s[e - 1] \in WordChar
        after  == e >= 1 /\ e <= Len(s) /\ s[e] \in WordChar
    IN  before /= after

\* The end (exclusive) of the strict pattern's match starting at s[i], with
\* the greedy quantifiers and their backtracking, or 0 when it does not match.
StrictMatchEnd(s, i) ==
    LET L  == RunLen(s, i, StrictLocal)
        at == i + L
        D  == RunLen(s, at + 1, StrictDomain)
        dt == at + 1 + D
        T  == RunLen(s, dt + 1, StrictTld)
        Tm == IF T > StrictTldMax THEN StrictTldMax ELSE T
        ok == { t \in StrictTldMin..Tm : WordBoundary(s, dt + 1 + t) }
    IN  IF /\ L >= 1
           /\ at <= Len(s) /\ s[at] = "@"
           /\ D >= 1
           /\ dt <= Len(s) /\ s[dt] = "."
           /\ ok /= {}
        THEN dt + 1 + (CHOOSE t \in ok : \A u \in ok : u <= t)
        ELSE 0

\* re.search(EMAIL_REGEX, email): group(1) of the leftmost match, else "".
clean_email(email) ==
    LET starts == { i \in 1..Len(email) : StrictMatchEnd(email, i) /= 0 }
    IN  IF starts = {} THEN << >>
        ELSE LET i == CHOOSE a \in starts : \A b \in starts : a <= b
             IN  SubSeq(email, i, StrictMatchEnd(email, i) - 1)

(***************************************************************************)
(* url_processor.py: the loose pattern                                     *)
(*   [a-zA-Z0-9._%+-]+@[a-zA-Z0-9.-]+\.[a-zA-Z]{2,}                        *)
(***************************************************************************)
LooseLocal  == Alnum \cup { ".", "_", "%", "+", "-" }
LooseDomain == Alnum \cup { ".", "-" }
LooseTldMin == 2

LooseMatchEnd(s, i) ==
    LET L  == RunLen(s, i, LooseLocal)
        at == i + L
        D  == RunLen(s, at + 1, LooseDomain)
        \* domain lengths d after which "\.[a-zA-Z]{2,}" matches
        ok == { d \in 1..D :
                  /\ at + 1 + d <= Len(s)
                  /\ s[at + 1 + d] = "."
                  /\ RunLen(s, at + 2 + d, Letter) >= LooseTldMin }
    IN  IF L >= 1 /\ at <= Len(s) /\ s[at] = "@" /\ ok /= {}
        THEN LET d == CHOOSE x \in ok : \A y \in ok : y <= x
             IN  at + 2 + d + RunLen(s, at + 2 + d, Letter)
        ELSE 0

\* re.findall(EMAIL_REGEX, text): the non-overlapping matches, left to right.
RECURSIVE FindAllFrom(_, _)
FindAllFrom(text, pos) ==
    LET starts == { i \in pos..Len(text) : LooseMatchEnd(text, i) /= 0 }
    IN  IF starts = {} THEN << >>
        ELSE LET i == CHOOSE a \in starts : \A b \in starts : a <= b
                 e == LooseMatchEnd(text, i)
             IN  << SubSeq(text, i, e - 1) >> \o FindAllFrom(text, e)

FindAll(text) == FindAllFrom(text, 1)

(***************************************************************************)
(* String literals of the code and of the modelled inputs                  *)
(***************************************************************************)
ColUrl      == << "u","r","l" >>                          \* "url"
ColSite     == << "s","i","t","e" >>                      \* "site"
ColWebsite  == << "w","e","b","s","i","t","e" >>          \* "website"
ColSiteWeb  == << "s","i","t","e","_","w","e","b" >>      \* "site_web"
ColLien     == << "l","i","e","n" >>                      \* "lien"
ColEmails   == << "e","m","a","i","l","s" >>              \* "emails"
HttpPrefix  == << "h","t","t","p",":","/","/" >>          \* "http://"
HttpsPrefix == << "h","t","t","p","s",":","/","/" >>      \* "https://"
HttpWord    == << "h","t","t","p" >>                      \* "http"
MailtoPrefix == << "m","a","i","l","t","o",":" >>         \* "mailto:"
KwContact   == << "c","o","n","t","a","c","t" >>          \* "contact"
KwAbout     == << "a","b","o","u","t" >>                  \* "about"
KwAPropos   == << "à"," ","p","r","o","p","o","s" >>      \* "à propos"

\* url_processor.py line 133: the recognized URL column names
UrlColumnNames == { ColUrl, ColSite, ColWebsite, ColSiteWeb, ColLien }

\* Column names and cell values of the modelled input tables
ColSiteCap == << "S","i","t","e" >>       \* "Site"
ColNom     == << "n","o","m" >>           \* "nom"
NomA       == << "A","l","p","h","a" >>   \* "Alpha"
UrlBad     == << "a"," ","f","r" >>       \* "a fr"
UrlA       == << "h","t","t","p",":","/","/","a",".","f","r","/" >>   \* "http://a.fr/"
StaleEmail == << "o","l","d","@","z",".","f","r" >>                   \* "old@z.fr"

\* Anchors and texts of the modelled pages
HrefMailto  == << "m","a","i","l","t","o",":","i","n","f","o","@","s","h","o","p",
                  ".","t","e","s","t","?","s","u","b","j","e","c","t","=","h","i" >>
                                          \* "mailto:info@shop.test?subject=hi"
HrefContact == << "/","c","o","n","t","a","c","t" >>                  \* "/contact"
HrefAbout   == << "h","t","t","p",":","/","/","a",".","f","r","/","A","b","o","u","t" >>
                                          \* "http://a.fr/About"
HrefNous    == << "n","o","u","s" >>                                  \* "nous"
HrefPro     == << "/","c","o","n","t","a","c","t","-","p","r","o" >>  \* "/contact-pro"
TxtMail     == << "M","a","i","l" >>                                  \* "Mail"
TxtContact  == << "C","o","n","t","a","c","t" >>                      \* "Contact"
TxtQui      == << "Q","u","i" >>                                      \* "Qui"
TxtAPropos  == << "À"," ","p","r","o","p","o","s" >>                  \* "À propos"
TextPlain   == << "r","i","e","n" >>                                  \* "rien"
TextTwo     == << "b","o","b","@","c","o","r","p",".","i","n","t","e","r","n","a",
                  "t","i","o","n","a","l"," ","x","@","y",".","f","r","." >>
                                          \* "bob@corp.international x@y.fr."
TextContactPage == << "e","c","r","i","r","e"," ","a"," ","c","@","d",".","i","o","!" >>
                                          \* "ecrire a c@d.io!"

Range(f) == { f[k] : k \in DOMAIN f }
Min(a, b) == IF a <= b THEN a ELSE b

(***************************************************************************)
(* The network: what requests.get can answer                               *)
(***************************************************************************)
HttpOk         == 200
SeedTimeout    == 10
ContactTimeout == 5

Anchor(h, t) == [href |-> h, text |-> t]
\* An answer of the network: id names it in the log of requests.
RequestFailed ==
    [id |-> "failed", exc |-> TRUE, status |-> 0, text |-> << >>, anchors |-> << >>]
Answer(id, st, tx, an) ==
    [id |-> id, exc |-> FALSE, status |-> st, text |-> tx, anchors |-> an]

\* A page with a mailto link carrying a query string and three contact-like
\* links (by href, by href in another case, by anchor text).
PageLinks == Answer("links", HttpOk, TextPlain,
                 << Anchor(HrefMailto, TxtMail),
                    Anchor(HrefContact, TxtContact),
                    Anchor(HrefAbout, TxtQui),
                    Anchor(HrefNous, TxtAPropos) >>)
PagePlain == Answer("plain", HttpOk, TextPlain, << >>)
PageTwo   == Answer("two", HttpOk, TextTwo, << >>)
PageContact == Answer("contact", HttpOk, TextContactPage,
                 << Anchor(HrefPro, TxtContact) >>)
NotFound  == Answer("404", 404, TextPlain, << >>)
Created   == Answer("201", 201, TextTwo, << >>)

SeedResponses == { RequestFailed, NotFound, Created, PageLinks, PagePlain, PageTwo }
ContactResponses == { RequestFailed, NotFound, PageContact }
ResponseById(id) ==
    CHOOSE r \in SeedResponses \cup ContactResponses : r.id = id

(***************************************************************************)
(* url_processor.py: extract_emails_from_url                               *)
(***************************************************************************)
\* lines 63-67 and 96-98: set(re.findall(EMAIL_REGEX, soup.get_text())), tabulated
\* once per modelled answer.
TextEmails == [r \in SeedResponses \cup ContactResponses |-> Range(FindAll(r.text))]

\* validators.url(url) (external library): a scheme, then a host, and no
\* white space anywhere.
IsValidUrl(url) ==
    /\ \A k \in DOMAIN url : url[k] \notin WhiteSpace
    /\ \/ StartsWith(url, HttpPrefix) /\ Len(url) > Len(HttpPrefix)
          /\ url[Len(HttpPrefix) + 1] \in Alnum
       \/ StartsWith(url, HttpsPrefix) /\ Len(url) > Len(HttpsPrefix)
          /\ url[Len(HttpsPrefix) + 1] \in Alnum

\* lines 41-43
NormalizeUrl(url) ==
    IF StartsWith(url, HttpPrefix) \/ StartsWith(url, HttpsPrefix)
    THEN url ELSE HttpsPrefix \o url

\* lines 69-75: the candidate harvested from one mailto: anchor
MailtoCandidate(href) == From(href, Len(MailtoPrefix) + 1)

MailtoCandidates(anchors) ==
    { MailtoCandidate(anchors[k].href) : k \in
        { j \in DOMAIN anchors :
            /\ StartsWith(anchors[j].href, MailtoPrefix)
            /\ \E m \in DOMAIN MailtoCandidate(anchors[j].href) :
                   MailtoCandidate(anchors[j].href)[m] = "@" } }

\* line 82
IsContactLike(a) ==
    \/ Contains(KwContact, LowerStr(a.href))
    \/ Contains(KwContact, LowerStr(a.text))
    \/ Contains(KwAbout, LowerStr(a.href))
    \/ Contains(KwAPropos, LowerStr(a.text))

\* lines 83-88
ResolveLink(url, href) ==
    IF StartsWith(href, << "/" >>) THEN RStripSlash(url) \o href
    ELSE IF StartsWith(href, HttpWord) THEN href
    ELSE RStripSlash(url) \o << "/" >> \o href

\* lines 78-88: contact_links, in document order
ContactLinks(url, anchors) ==
    LET liked == SelectSeq(anchors, IsContactLike)
    IN  [k \in DOMAIN liked |-> ResolveLink(url, liked[k].href)]

\* line 91: contact_links[:2]
MaxContactPagesAll(links) == links
MaxContactPages(links) == SubSeq(links, 1, Min(2, Len(links)))

\* line 55: the one GET of the seed URL
SeedGetsRetry(u, seed) ==
    IF seed.exc \/ seed.status /= HttpOk
    THEN << [url |-> u, timeout |-> SeedTimeout, resp |-> seed.id, kind |-> "seed"],
            [url |-> u, timeout |-> SeedTimeout, resp |-> seed.id, kind |-> "seed"] >>
    ELSE << [url |-> u, timeout |-> SeedTimeout, resp |-> seed.id, kind |-> "seed"] >>
SeedGets(u, seed) ==
    << [url |-> u, timeout |-> SeedTimeout, resp |-> seed.id, kind |-> "seed"] >>

\* The contact pages that a seed answer makes the function request.
ContactUrls(url, seed) ==
    IF ~IsValidUrl(url) \/ seed.exc \/ seed.status /= HttpOk THEN << >>
    ELSE MaxContactPages(ContactLinks(NormalizeUrl(url), seed.anchors))

\* lines 34-108.  seed is the answer to the seed GET and cresp[k] the answer
\* to the k-th contact GET.  The result carries the set of emails, the GETs
\* issued and the messages printed; every exception is caught inside (lines
\* 99 and 105), so the function always returns.
extract_emails_from_url(url, seed, cresp) ==
    IF ~IsValidUrl(url)
    THEN [emails |-> {}, gets |-> << >>, printed |-> << "invalid_url" >>]
    ELSE
    LET u == NormalizeUrl(url)
    IN  IF seed.exc
        THEN [emails |-> {}, gets |-> SeedGets(u, seed),
              printed |-> << "seed_error" >>]
        ELSE IF seed.status /= HttpOk
        THEN [emails |-> {}, gets |-> SeedGets(u, seed), printed |-> << >>]
        ELSE
        LET pages == ContactUrls(url, seed)
            good  == { k \in DOMAIN pages :
                         ~cresp[k].exc /\ cresp[k].status = HttpOk }
            bad   == { k \in DOMAIN pages : cresp[k].exc }
        IN  [emails |-> TextEmails[seed]
                        \cup MailtoCandidates(seed.anchors)
                        \cup UNION { TextEmails[cresp[k]] : k \in good },
             gets   |-> SeedGets(u, seed) \o
                        [k \in DOMAIN pages |->
                           [url |-> pages[k], timeout |-> ContactTimeout,
                            resp |-> cresp[k].id, kind |-> "contact"]],
             printed |-> [k \in 1..Cardinality(bad) |-> "contact_error"]]

\* list(emails): a set has no order, any permutation can come out.
Orderings(S) ==
    { f \in [1..Cardinality(S) -> S] :
        \A a, b \in 1..Cardinality(S) : a /= b => f[a] /= f[b] }

(***************************************************************************)
(* The input tables                                                        *)
(***************************************************************************)
MaxRows == 2

\* The header rows of the modelled input files: a URL column first, a URL
\* column last and in another case, no URL column, and a table that already
\* has an emails column.
Headers ==
    { << ColUrl, ColNom >>, << ColNom, ColSiteCap >>, << ColNom >>,
      << ColUrl, ColEmails >> }

UrlValues == { << >>, UrlBad, UrlA }

Cell(col, u) ==
    IF LowerStr(col) \in UrlColumnNames THEN u
    ELSE IF col = ColEmails THEN StaleEmail
    ELSE NomA

\* The data lines a file with this header can hold: complete lines, and lines
\* cut short before a URL column in last position.
RawRows(header) ==
    LET full == { [k \in DOMAIN header |-> Cell(header[k], u)] : u \in UrlValues }
    IN  full \cup
        { SubSeq(r, 1, Len(r) - 1) : r \in
            { x \in full : /\ Len(header) > 1
                           /\ LowerStr(header[Len(header)]) \in UrlColumnNames } }

Tables(header) ==
    UNION { [1..n -> RawRows(header)] : n \in 0..MaxRows }

InputFiles ==
    { [state |-> "missing", header |-> << >>, rows |-> << >>],
      [state |-> "unreadable", header |-> << >>, rows |-> << >>] }
    \cup UNION { { [state |-> "ok", header |-> h, rows |-> t] : t \in Tables(h) } :
                  h \in Headers }

NoFile == [header |-> << >>, rows |-> << >>, exists |-> FALSE]
File(h, r) == [header |-> h, rows |-> r, exists |-> TRUE]
\* An output file left at the output path by an earlier run.
StaleFile == File(<< ColUrl, ColEmails >>, << << UrlA, StaleEmail >> >>)

\* Every call extract_emails_from_url(url) the run can make on the modelled
\* tables and network, with its result and the order list(emails) came out in.
ExtractCalls ==
    UNION { UNION { { [url |-> u, seed |-> seed, cresp |-> c] :
                        c \in [DOMAIN ContactUrls(u, seed) -> ContactResponses] } :
                    seed \in SeedResponses } :
            u \in UrlValues \ { << >> } }

RowOutcomes ==
    UNION { LET r == extract_emails_from_url(x.url, x.seed, x.cresp)
            IN  { [url |-> x.url, result |-> r, emails |-> o] :
                    o \in Orderings(r.emails) } :
            x \in ExtractCalls }

(***************************************************************************)
(* State                                                                   *)
(***************************************************************************)
VARIABLES
    pc,          \* position in main / process_urls / send_emails
    inputFile,   \* the file at the input path
    outFile,     \* the file at the output path
    wrote,       \* process_urls opened the output file for writing
    data,        \* process_urls: the rows read, as dicts
    fieldnames,  \* process_urls: data[0].keys(), in order
    urlColumn,   \* process_urls: url_column
    idx,         \* process_urls: position of the row loop
    gets,        \* the HTTP GETs issued so far, with the row they belong to
    printed,     \* the messages printed so far
    raised,      \* the exception that left process_urls, "" when none did
    \* clean_emails_file
    email_col_idx,        \* 0-based index of the emails column
    cleaned_data,         \* the lines to write, header first
    total_emails_before,
    total_emails_after,
    \* main and send_emails
    args,          \* the command line: no_send
    env,           \* os.environ after load_dotenv(): the SMTP settings
    templateFile,  \* the file at the template path
    emails_data,   \* the rows handed to send_emails
    sidx,          \* send_emails: position of the row loop
    sent_count,    \* send_emails: sent_count
    sendCalls,     \* the calls send_email(to, subject, body) made so far
    smtpConns,     \* the recipients an SMTP connection was opened for
    sendReturn,    \* << >>, then << n >> once send_emails has returned n
    \* template rendering
    r_template, r_row, r_order, r_once, r_twice

procVars   == << wrote, fieldnames, urlColumn, gets, raised >>
cleanVars  == << email_col_idx, cleaned_data, total_emails_before, total_emails_after >>
sendVars   == << args, env, templateFile, emails_data, sidx, sent_count, sendCalls,
                 smtpConns, sendReturn >>
renderVars == << r_template, r_row, r_order, r_once, r_twice >>

vars == << pc, inputFile, outFile, data, idx, printed, procVars, cleanVars,
           sendVars, renderVars >>

\* The variables of the other stages, at rest
CleanIdle ==
    /\ email_col_idx = 0 /\ cleaned_data = << >>
    /\ total_emails_before = 0 /\ total_emails_after = 0
SendIdle ==
    /\ args = [no_send |-> TRUE]
    /\ env = [SMTP_FROM_EMAIL |-> NONE, SMTP_SERVER |-> NONE, SMTP_PORT |-> NONE,
              SMTP_USERNAME |-> NONE, SMTP_PASSWORD |-> NONE]
    /\ templateFile = [exists |-> FALSE, text |-> << >>]
    /\ emails_data = << >> /\ sidx = 0 /\ sent_count = 0
    /\ sendCalls = << >> /\ smtpConns = << >> /\ sendReturn = << >>
RenderIdle ==
    /\ r_template = << >> /\ r_row = << >> /\ r_order = << >>
    /\ r_once = NONE /\ r_twice = NONE
ProcIdle ==
    /\ wrote = FALSE /\ fieldnames = << >> /\ urlColumn = NONE
    /\ gets = << >> /\ raised = ""

(***************************************************************************)
(* url_processor.py: process_urls                                          *)
(***************************************************************************)
\* csv.DictReader: one dict per data line, the missing cells None
DictRow(header, cells) ==
    [c \in Range(header) |->
        LET k == CHOOSE j \in DOMAIN header :
                     header[j] = c /\ \A m \in DOMAIN header : header[m] = c => m <= j
        IN  IF k <= Len(cells) THEN cells[k] ELSE NONE]

DictReader(file) == [k \in DOMAIN file.rows |-> DictRow(file.header, file.rows[k])]

\* lines 121-128
ReadInput ==
    /\ pc = "p_read"
    /\ IF inputFile.state = "ok"
       THEN /\ data' = DictReader(inputFile)
            /\ fieldnames' = inputFile.header
            /\ pc' = "p_column"
            /\ UNCHANGED printed
       ELSE /\ printed' = Append(printed, "read_error")
            /\ pc' = "p_return"
            /\ UNCHANGED << data, fieldnames >>
    /\ UNCHANGED << inputFile, outFile, wrote, urlColumn, idx, gets, raised >>
    /\ UNCHANGED << cleanVars, sendVars, renderVars >>

\* lines 131-135: the first column whose lower-cased name is recognized
FindUrlColumn(names) ==
    LET hits == { k \in DOMAIN names : LowerStr(names[k]) \in UrlColumnNames }
    IN  IF hits = {} THEN NONE
        ELSE names[CHOOSE k \in hits : \A m \in hits : k <= m]

\* lines 142-144: row['emails'] = None for every row
AddEmailsColumn(rows) ==
    [k \in DOMAIN rows |->
        [c \in DOMAIN rows[k] \cup { ColEmails } |->
            IF c = ColEmails THEN NONE ELSE rows[k][c]]]

\* lines 130-147
SelectUrlColumn ==
    /\ pc = "p_column"
    /\ IF data = << >>
       THEN \* data[0] raises IndexError, which nothing catches
            /\ raised' = "IndexError"
            /\ pc' = "crashed"
            /\ UNCHANGED << data, fieldnames, urlColumn, idx, printed >>
       ELSE IF FindUrlColumn(fieldnames) = NONE
       THEN /\ printed' = printed \o << "no_url_column", "available_columns" >>
            /\ pc' = "p_return"
            /\ UNCHANGED << data, fieldnames, urlColumn, idx, raised >>
       ELSE /\ urlColumn' = FindUrlColumn(fieldnames)
            /\ data' = AddEmailsColumn(data)
            /\ fieldnames' = IF ColEmails \in Range(fieldnames) THEN fieldnames
                             ELSE Append(fieldnames, ColEmails)
            /\ printed' = Append(printed, "extracting")
            /\ idx' = 1
            /\ pc' = "p_loop"
            /\ UNCHANGED raised
    /\ UNCHANGED << inputFile, outFile, wrote, gets >>
    /\ UNCHANGED << cleanVars, sendVars, renderVars >>

\* lines 149-162: one iteration of the row loop
ProcessRow ==
    /\ pc = "p_loop"
    /\ idx <= Len(data)
    /\ LET url == data[idx][urlColumn]
       IN  IF ~Truthy(url)
           THEN UNCHANGED << data, gets, printed >>
           ELSE \E o \in RowOutcomes :
                  /\ o.url = url
                  /\ data' = IF o.emails /= << >>
                             THEN [data EXCEPT ![idx][ColEmails] = Join(o.emails, ";")]
                             ELSE data
                  /\ gets' = gets \o
                        [k \in DOMAIN o.result.gets |->
                           [row |-> idx, url |-> o.result.gets[k].url,
                            timeout |-> o.result.gets[k].timeout,
                            resp |-> o.result.gets[k].resp,
                            kind |-> o.result.gets[k].kind]]
                  /\ printed' = printed \o o.result.printed
    /\ idx' = idx + 1
    /\ UNCHANGED << pc, inputFile, outFile, wrote, fieldnames, urlColumn, raised >>
    /\ UNCHANGED << cleanVars, sendVars, renderVars >>

\* line 165: the rows kept for the output
RowsWithEmailsAll(rows) == rows
RowsWithEmails(rows) == SelectSeq(rows, LAMBDA r : Truthy(r[ColEmails]))

\* csv.DictWriter: the cells of a row in fieldnames order, None written as ''
WriteRow(names, row) ==
    [k \in DOMAIN names |-> IF row[names[k]] = NONE THEN << >> ELSE row[names[k]]]

\* lines 164-173
WriteOutput ==
    /\ pc = "p_loop"
    /\ idx > Len(data)
    /\ LET kept == RowsWithEmails(data)
       IN  outFile' = File(fieldnames,
                           [k \in DOMAIN kept |-> WriteRow(fieldnames, kept[k])])
    /\ wrote' = TRUE
    /\ printed' = Append(printed, "saved")
    /\ pc' = "p_return"
    /\ UNCHANGED << inputFile, data, fieldnames, urlColumn, idx, gets, raised >>
    /\ UNCHANGED << cleanVars, sendVars, renderVars >>

InitProcess ==
    /\ pc = "p_read"
    /\ inputFile \in InputFiles
    /\ outFile = NoFile
    /\ data = << >>
    /\ idx = 0
    /\ printed = << >>
    /\ ProcIdle /\ CleanIdle /\ SendIdle /\ RenderIdle

NextProcess ==
    \/ ReadInput
    \/ SelectUrlColumn
    \/ ProcessRow
    \/ WriteOutput

SpecProcess == InitProcess /\ [][NextProcess]_vars

(***************************************************************************)
(* clean_emails.py: clean_emails_file                                      *)
(***************************************************************************)
ColEmail    == << "e","m","a","i","l" >>                  \* "email"
ColMail     == << "m","a","i","l" >>                      \* "mail"
ColCourriel == << "c","o","u","r","r","i","e","l" >>      \* "courriel"
\* line 65: the recognized emails column names
EmailColumnNames == { ColEmails, ColEmail, ColMail, ColCourriel }

\* Emails fields of the modelled tables to clean
ColEmailCap  == << "E","m","a","i","l" >>                 \* "Email"
FieldSpec    == << "a","@","b",".","c","o","m",";"," ","n","o","t","-","a","n","-",
                   "e","m","a","i","l",";"," ","c","@","d",".","i","o" >>
                                          \* "a@b.com; not-an-email; c@d.io"
FieldQuery   == << "i","n","f","o","@","s","h","o","p",".","t","e","s","t","?",
                   "s","u","b","j","e","c","t","=","h","i" >>
                                          \* "info@shop.test?subject=hi"
FieldValid   == << "x","@","y",".","f","r" >>             \* "x@y.fr"
FieldLongTld == << "b","o","b","@","c","o","r","p",".","i","n","t","e","r","n","a",
                   "t","i","o","n","a","l" >>             \* "bob@corp.international"
FieldJunk    == << "z","z",";" >>                         \* "zz;"
FieldCleaned == << "a","@","b",".","c","o","m",";","c","@","d",".","i","o" >>
                                          \* "a@b.com;c@d.io"

MaxCleanRows == 2

CleanFields == { << >>, FieldSpec, FieldQuery, FieldValid, FieldLongTld, FieldJunk }
\* A recognized emails column last, one first and in another case, and none
\* (the last column is then taken).
CleanHeaders == { << ColUrl, ColEmails >>, << ColEmailCap, ColNom >>, << ColUrl, ColNom >> }

\* lines 60-71: email_col_idx (0-based)
FindEmailColumn(header) ==
    LET hits == { k \in DOMAIN header : LowerStr(header[k]) \in EmailColumnNames }
    IN  IF hits = {} THEN Len(header) - 1
        ELSE (CHOOSE k \in hits : \A m \in hits : k <= m) - 1

\* The lines a file to clean can hold under this header: complete lines, and
\* lines that stop before the emails column (a blank line when it is first).
CleanLines(header) ==
    LET col  == FindEmailColumn(header) + 1
        full == { [k \in DOMAIN header |->
                     IF k = col THEN f ELSE IF k = 1 THEN UrlA ELSE NomA] :
                  f \in CleanFields }
    IN  full \cup { SubSeq(r, 1, col - 1) : r \in full }

CleanInputFiles ==
    { [state |-> "missing", header |-> << >>, rows |-> << >>],
      [state |-> "unreadable", header |-> << >>, rows |-> << >>],
      [state |-> "empty", header |-> << >>, rows |-> << >>] }
    \cup UNION { { [state |-> "ok", header |-> h, rows |-> t] :
                     t \in UNION { [1..n -> CleanLines(h)] : n \in 0..MaxCleanRows } } :
                 h \in CleanHeaders }

\* lines 41-78: the checks, the read and the choice of the emails column
CleanStart ==
    /\ pc = "c_start"
    /\ IF inputFile.state = "ok"
       THEN /\ data' = << inputFile.header >> \o inputFile.rows
            /\ email_col_idx' = FindEmailColumn(inputFile.header)
            /\ cleaned_data' = << inputFile.header >>
            /\ idx' = 1
            /\ pc' = "c_loop"
            /\ UNCHANGED printed
       ELSE /\ printed' = Append(printed,
                             CASE inputFile.state = "missing" -> "missing"
                               [] inputFile.state = "unreadable" -> "read_error"
                               [] OTHER -> "empty")
            /\ pc' = "c_return"
            /\ UNCHANGED << data, email_col_idx, cleaned_data, idx >>
    /\ total_emails_before' = 0
    /\ total_emails_after' = 0
    /\ UNCHANGED << inputFile, outFile, procVars, sendVars, renderVars >>

\* lines 96-100: the non-empty results of clean_email, in order
CleanedEmailsKeepEmpty(emails_list) ==
    [k \in DOMAIN emails_list |-> clean_email(emails_list[k])]
CleanedEmails(emails_list) ==
    SelectSeq([k \in DOMAIN emails_list |-> clean_email(emails_list[k])],
              LAMBDA c : c /= << >>)

\* lines 81-107: what one line adds to cleaned_data
CleanedLineDropEmpty(line, col) ==
    IF Len(line) <= col THEN << >>
    ELSE IF line[col + 1] = << >> THEN << line >>
    ELSE IF CleanedEmails(Split(line[col + 1], ";")) = << >> THEN << >>
    ELSE << [line EXCEPT ![col + 1] = Join(CleanedEmails(Split(line[col + 1], ";")), ";")] >>
CleanedLine(line, col) ==
    IF Len(line) <= col THEN << >>
    ELSE IF line[col + 1] = << >> THEN << line >>
    ELSE << [line EXCEPT ![col + 1] = Join(CleanedEmails(Split(line[col + 1], ";")), ";")] >>

\* lines 80-107: one iteration of the loop over data[1:]
CleanRow ==
    /\ pc = "c_loop"
    /\ idx < Len(data)
    /\ LET line == data[idx + 1]
           counted == Len(line) > email_col_idx /\ line[email_col_idx + 1] /= << >>
       IN  /\ cleaned_data' = cleaned_data \o CleanedLine(line, email_col_idx)
           /\ total_emails_before' =
                 IF counted
                 THEN total_emails_before + Len(Split(line[email_col_idx + 1], ";"))
                 ELSE total_emails_before
           /\ total_emails_after' =
                 IF counted
                 THEN total_emails_after
                      + Len(CleanedEmails(Split(line[email_col_idx + 1], ";")))
                 ELSE total_emails_after
    /\ idx' = idx + 1
    /\ UNCHANGED << pc, inputFile, outFile, data, printed, email_col_idx >>
    /\ UNCHANGED << procVars, sendVars, renderVars >>

\* lines 109-119: the write, which can fail
CleanWrite ==
    /\ pc = "c_loop"
    /\ idx >= Len(data)
    /\ \E ok \in BOOLEAN :
         IF ok
         THEN /\ outFile' = File(cleaned_data[1], Tail(cleaned_data))
              /\ printed' = printed \o << "cleaned", "before", "after", "removed" >>
         ELSE /\ printed' = Append(printed, "write_error")
              /\ UNCHANGED outFile
    /\ pc' = "c_return"
    /\ UNCHANGED << inputFile, data, idx, cleanVars, procVars, sendVars, renderVars >>

InitClean ==
    /\ pc = "c_start"
    /\ inputFile \in CleanInputFiles
    /\ outFile = NoFile
    /\ data = << >>
    /\ idx = 0
    /\ printed = << >>
    /\ ProcIdle /\ CleanIdle /\ SendIdle /\ RenderIdle

NextClean ==
    \/ CleanStart
    \/ CleanRow
    \/ CleanWrite

SpecClean == InitClean /\ [][NextClean]_vars

(***************************************************************************)
(* email_sender.py: send_email and send_emails                             *)
(***************************************************************************)
OpenBraces  == << "{", "{" >>
CloseBraces == << "}", "}" >>
\* line 131: f"{{{{{key}}}}}"
PlaceholderSingleBrace(key) == << "{" >> \o key \o << "}" >>
Placeholder(key) == OpenBraces \o key \o CloseBraces

\* A row is a dict in insertion order: a sequence of [key, value] items.
Item(k, v) == [key |-> k, value |-> v]
\* The value of a None cell as str(value) writes it
NoneText == << "N","o","n","e" >>     \* "None"
Str(v) == IF v = NONE THEN NoneText ELSE v

\* row.get('emails', '')
GetEmails(row) ==
    LET hits == { k \in DOMAIN row : row[k].key = ColEmails }
    IN  IF hits = {} THEN << >> ELSE row[CHOOSE k \in hits : TRUE].value

\* lines 126-132: the template with the placeholder of every key but 'emails'
\* replaced, the keys taken in the order of the items
RECURSIVE Render(_, _)
Render(body, items) ==
    IF items = << >> THEN body
    ELSE Render(IF items[1].key /= ColEmails
                THEN Replace(body, Placeholder(items[1].key), Str(items[1].value))
                ELSE body,
                Tail(items))

\* lines 118-123: the addresses of a row: the stripped, non-empty pieces
Recipients(row) ==
    LET pieces == Split(GetEmails(row), ";")
    IN  SelectSeq([k \in DOMAIN pieces |-> Strip(pieces[k])], LAMBDA e : e /= << >>)

\* The SMTP settings of the modelled environments
SmtpFrom == << "m","e","@","m","o","i",".","f","r" >>           \* "me@moi.fr"
SmtpHost == << "s","m","t","p",".","m","o","i",".","f","r" >>   \* "smtp.moi.fr"
SmtpUser == << "m","e" >>                                       \* "me"
SmtpPass == << "p","w" >>                                       \* "pw"
Port587  == << "5","8","7" >>                                   \* "587"
Port0    == << "0" >>                                           \* "0"
DefaultPort == 587

EnvComplete ==
    [SMTP_FROM_EMAIL |-> SmtpFrom, SMTP_SERVER |-> SmtpHost, SMTP_PORT |-> NONE,
     SMTP_USERNAME |-> SmtpUser, SMTP_PASSWORD |-> SmtpPass]
RequiredSettings == { "SMTP_FROM_EMAIL", "SMTP_SERVER", "SMTP_USERNAME", "SMTP_PASSWORD" }
\* The complete environment, with or without a port, and the environments
\* where one required setting is unset or set to the empty string, or all are
\* unset.
Envs ==
    { EnvComplete, [EnvComplete EXCEPT !.SMTP_PORT = Port587],
      [EnvComplete EXCEPT !.SMTP_PORT = Port0],
      [SMTP_FROM_EMAIL |-> NONE, SMTP_SERVER |-> NONE, SMTP_PORT |-> NONE,
       SMTP_USERNAME |-> NONE, SMTP_PASSWORD |-> NONE] }
    \cup { [EnvComplete EXCEPT ![s] = v] : s \in RequiredSettings, v \in { NONE, << >> } }

\* int(text) of a string of digits
DigitSeq == << "0","1","2","3","4","5","6","7","8","9" >>
RECURSIVE ParseInt(_)
ParseInt(s) ==
    IF s = << >> THEN 0
    ELSE 10 * ParseInt(SubSeq(s, 1, Len(s) - 1))
         + (CHOOSE d \in 0..9 : DigitSeq[d + 1] = s[Len(s)])

\* lines 101-102: all([...]) over the four settings send_emails looks at
SmtpConfiguredNoPassword(e) ==
    /\ Truthy(e.SMTP_FROM_EMAIL) /\ Truthy(e.SMTP_SERVER) /\ Truthy(e.SMTP_USERNAME)
SmtpConfigured(e) ==
    /\ Truthy(e.SMTP_FROM_EMAIL) /\ Truthy(e.SMTP_SERVER)
    /\ Truthy(e.SMTP_USERNAME) /\ Truthy(e.SMTP_PASSWORD)

\* lines 39-46 of send_email: the same settings and a port that is not 0
SendEmailConfigured(e) ==
    /\ Truthy(e.SMTP_FROM_EMAIL) /\ Truthy(e.SMTP_SERVER)
    /\ (IF e.SMTP_PORT = NONE THEN DefaultPort ELSE ParseInt(e.SMTP_PORT)) /= 0
    /\ Truthy(e.SMTP_USERNAME) /\ Truthy(e.SMTP_PASSWORD)

\* lines 87-115 (emails_data is always a list of dicts here, so the check of
\* lines 88-90 passes)
SendStart ==
    /\ pc = "s_start"
    /\ IF ~templateFile.exists
       THEN /\ printed' = Append(printed, "template_error")
            /\ sendReturn' = << 0 >>
            /\ pc' = "s_return"
            /\ UNCHANGED << sidx, sent_count >>
       ELSE IF ~SmtpConfigured(env)
       THEN /\ printed' = Append(printed, "smtp_config_missing")
            /\ sendReturn' = << 0 >>
            /\ pc' = "s_return"
            /\ UNCHANGED << sidx, sent_count >>
       ELSE /\ printed' = Append(printed, "sending")
            /\ sent_count' = 0
            /\ sidx' = 1
            /\ pc' = "s_loop"
            /\ UNCHANGED sendReturn
    /\ UNCHANGED << inputFile, outFile, data, idx, procVars, cleanVars, renderVars >>
    /\ UNCHANGED << args, env, templateFile, emails_data, sendCalls, smtpConns >>

\* lines 116-139: one row of the loop, that is one send_email call per address
\* of the row; a call opens a connection when send_email finds its settings
\* (lines 39-48), and then succeeds or fails (lines 50-73).
SendRow ==
    /\ pc = "s_loop"
    /\ sidx <= Len(emails_data)
    /\ LET row  == emails_data[sidx]
           to   == Recipients(row)
           body == Render(templateFile.text, row)
       IN  /\ sendCalls' = sendCalls \o [k \in DOMAIN to |-> [to |-> to[k], body |-> body]]
           /\ IF SendEmailConfigured(env)
              THEN /\ smtpConns' = smtpConns \o to
                   /\ \E ok \in [DOMAIN to -> BOOLEAN] :
                        /\ sent_count' = sent_count + Cardinality({ k \in DOMAIN to : ok[k] })
                        /\ printed' = printed \o
                              [k \in 1..Cardinality({ j \in DOMAIN to : ~ok[j] }) |-> "send_error"]
              ELSE /\ printed' = printed \o [k \in DOMAIN to |-> "smtp_info_missing"]
                   /\ UNCHANGED << smtpConns, sent_count >>
    /\ sidx' = sidx + 1
    /\ UNCHANGED << pc, inputFile, outFile, data, idx, procVars, cleanVars, renderVars >>
    /\ UNCHANGED << args, env, templateFile, emails_data, sendReturn >>

\* lines 141-142
SendReturn ==
    /\ pc = "s_loop"
    /\ sidx > Len(emails_data)
    /\ printed' = Append(printed, "sent")
    /\ sendReturn' = << sent_count >>
    /\ pc' = "s_return"
    /\ UNCHANGED << inputFile, outFile, data, idx, procVars, cleanVars, renderVars >>
    /\ UNCHANGED << args, env, templateFile, emails_data, sidx, sent_count,
                    sendCalls, smtpConns >>

\* The rows and templates send_emails is called with
MaxSendRows == 2
TemplateText == << "{","{","n","o","m","}","}"," ","{","{","u","r","l","}","}"," ",
                   "{","{","x","}","}" >>          \* "{{nom}} {{url}} {{x}}"
FieldSpaced  == << " ","x","@","y",".","f","r"," ",";"," ",";","c","@","d",".","i","o" >>
                                                   \* " x@y.fr ; ;c@d.io"
SendRows ==
    { << Item(ColUrl, UrlA), Item(ColNom, NomA), Item(ColEmails, f) >> :
        f \in { << >>, FieldValid, FieldSpaced, FieldQuery } }
    \cup { << Item(ColUrl, UrlA), Item(ColNom, NomA) >> }
TemplateFiles ==
    { [exists |-> FALSE, text |-> << >>], [exists |-> TRUE, text |-> TemplateText] }

InitSend ==
    /\ pc = "s_start"
    /\ emails_data \in UNION { [1..n -> SendRows] : n \in 0..MaxSendRows }
    /\ templateFile \in TemplateFiles
    /\ env \in Envs
    /\ args = [no_send |-> FALSE]
    /\ sidx = 0 /\ sent_count = 0
    /\ sendCalls = << >> /\ smtpConns = << >> /\ sendReturn = << >>
    /\ inputFile = [state |-> "missing", header |-> << >>, rows |-> << >>]
    /\ outFile = NoFile
    /\ data = << >> /\ idx = 0 /\ printed = << >>
    /\ ProcIdle /\ CleanIdle /\ RenderIdle

NextSend ==
    \/ SendStart
    \/ SendRow
    \/ SendReturn

SpecSend == InitSend /\ [][NextSend]_vars

(***************************************************************************)
(* main.py: main                                                           *)
(***************************************************************************)
\* csv.DictReader over the output file: one dict per line, in header order
ReadRows(file) ==
    [k \in DOMAIN file.rows |->
        [j \in DOMAIN file.header |->
            Item(file.header[j],
                 IF j <= Len(file.rows[k]) THEN file.rows[k][j] ELSE NONE)]]

\* lines 33-40: the input path is checked, then process_urls is called
MainStart ==
    /\ pc = "m_start"
    /\ IF inputFile.state = "missing"
       THEN /\ printed' = Append(printed, "input_missing")
            /\ pc' = "m_done"
       ELSE /\ printed' = Append(printed, "processing")
            /\ pc' = "p_read"
    /\ UNCHANGED << inputFile, outFile, data, idx, procVars, cleanVars, sendVars,
                    renderVars >>

\* lines 42-62, once process_urls has returned: the output file is read back
\* and handed to send_emails
MainSend ==
    /\ pc = "p_return"
    /\ IF args.no_send
       THEN /\ printed' = Append(printed, "done")
            /\ pc' = "m_done"
            /\ UNCHANGED emails_data
       ELSE IF ~templateFile.exists
       THEN /\ printed' = Append(printed, "template_missing")
            /\ pc' = "m_done"
            /\ UNCHANGED emails_data
       ELSE IF ~outFile.exists
       THEN \* open() raises, line 63 catches
            /\ printed' = printed \o << "loading", "load_or_send_error", "done" >>
            /\ pc' = "m_done"
            /\ UNCHANGED emails_data
       ELSE IF ReadRows(outFile) = << >>
       THEN /\ printed' = printed \o << "loading", "no_email_found" >>
            /\ emails_data' = << >>
            /\ pc' = "m_done"
       ELSE /\ printed' = printed \o << "loading", "sending_subject" >>
            /\ emails_data' = ReadRows(outFile)
            /\ pc' = "s_start"
    /\ UNCHANGED << inputFile, outFile, data, idx, procVars, cleanVars, renderVars >>
    /\ UNCHANGED << args, env, templateFile, sidx, sent_count, sendCalls, smtpConns,
                    sendReturn >>

\* line 66, once send_emails has returned
MainEnd ==
    /\ pc = "s_return"
    /\ printed' = Append(printed, "done")
    /\ pc' = "m_done"
    /\ UNCHANGED << inputFile, outFile, data, idx, procVars, cleanVars, sendVars,
                    renderVars >>

MaxMainRows == 1
MainHeaders == { << ColUrl, ColNom >>, << ColNom >> }
MainInputFiles ==
    { [state |-> "missing", header |-> << >>, rows |-> << >>],
      [state |-> "unreadable", header |-> << >>, rows |-> << >>] }
    \cup UNION { { [state |-> "ok", header |-> h, rows |-> t] :
                     t \in UNION { [1..n -> RawRows(h)] : n \in 0..MaxMainRows } } :
                 h \in MainHeaders }
MainEnvs == { EnvComplete, [EnvComplete EXCEPT !.SMTP_PASSWORD = NONE] }

Init ==
    /\ pc = "m_start"
    /\ inputFile \in MainInputFiles
    /\ outFile \in { NoFile, StaleFile }
    /\ args \in [no_send : BOOLEAN]
    /\ templateFile \in TemplateFiles
    /\ env \in MainEnvs
    /\ emails_data = << >> /\ sidx = 0 /\ sent_count = 0
    /\ sendCalls = << >> /\ smtpConns = << >> /\ sendReturn = << >>
    /\ data = << >> /\ idx = 0 /\ printed = << >>
    /\ ProcIdle /\ CleanIdle /\ RenderIdle

Next ==
    \/ MainStart
    \/ ReadInput
    \/ SelectUrlColumn
    \/ ProcessRow
    \/ WriteOutput
    \/ MainSend
    \/ SendStart
    \/ SendRow
    \/ SendReturn
    \/ MainEnd

Spec == Init /\ [][Next]_vars

(***************************************************************************)
(* email_sender.py: the placeholder replacement loop, applied once and     *)
(* again to its own result                                                 *)
(***************************************************************************)
KeyA == << "a" >>
KeyB == << "b" >>
ValB == << "b" >>
ValX == << "x" >>
ValToken == << "{","{","b","}","}" >>       \* "{{b}}"
ValBrace == << "{" >>
RenderValues == { ValB, ValX, ValToken, ValBrace }

\* The pieces templates are built from: placeholders, stray braces, text
PartA == << "{","{","a","}","}" >>          \* "{{a}}"
PartB == << "{","{","b","}","}" >>          \* "{{b}}"
PartOpen  == << "{","{" >>
PartClose == << "}","}" >>
TemplateParts == { PartA, PartB, PartOpen, PartClose, ValX }
MaxTemplateParts == 3

RECURSIVE Concat(_)
Concat(parts) == IF parts = << >> THEN << >> ELSE parts[1] \o Concat(Tail(parts))

Templates ==
    UNION { { Concat(f) : f \in [1..n -> TemplateParts] } : n \in 0..MaxTemplateParts }

\* The row's items in the iteration order r_order
OrderedItems(row, order) == [k \in DOMAIN order |-> row[order[k]]]

\* lines 126-132 on the template
RenderOnce ==
    /\ pc = "r_start"
    /\ r_once' = Render(r_template, OrderedItems(r_row, r_order))
    /\ pc' = "r_once"
    /\ UNCHANGED << inputFile, outFile, data, idx, printed, procVars, cleanVars,
                    sendVars, r_template, r_row, r_order, r_twice >>

\* lines 126-132 on the text the first pass produced
RenderTwice ==
    /\ pc = "r_once"
    /\ r_twice' = Render(r_once, OrderedItems(r_row, r_order))
    /\ pc' = "r_done"
    /\ UNCHANGED << inputFile, outFile, data, idx, printed, procVars, cleanVars,
                    sendVars, r_template, r_row, r_order, r_once >>

InitRender ==
    /\ pc = "r_start"
    /\ r_template \in Templates
    /\ r_row \in { << Item(KeyA, va), Item(KeyB, vb) >> : va, vb \in RenderValues }
    /\ r_order \in Orderings({1, 2})
    /\ r_once = NONE /\ r_twice = NONE
    /\ inputFile = [state |-> "missing", header |-> << >>, rows |-> << >>]
    /\ outFile = NoFile
    /\ data = << >> /\ idx = 0 /\ printed = << >>
    /\ ProcIdle /\ CleanIdle /\ SendIdle

NextRender ==
    \/ RenderOnce
    \/ RenderTwice

SpecRender == InitRender /\ [][NextRender]_vars

(***************************************************************************)
(* Properties of process_urls                                              *)
(***************************************************************************)
\* The GETs issued for row k, in order
GetsOfRow(k) == SelectSeq(gets, LAMBDA g : g.row = k)
SeedGetsOfRow(k) == SelectSeq(gets, LAMBDA g : g.row = k /\ g.kind = "seed")
ContactGetsOfRow(k) == SelectSeq(gets, LAMBDA g : g.row = k /\ g.kind = "contact")

\* The positions of the rows whose emails field is non-empty after extraction
KeptRows == { k \in DOMAIN data : data[k][ColEmails] /= NONE /\ data[k][ColEmails] /= << >> }
\* The j-th kept row, in input order
NthKept(j) == CHOOSE k \in KeptRows : Cardinality({ m \in KeptRows : m < k }) = j - 1
\* The cell of input line k under column c, as the reader and the writer pass it on
InputCell(k, c) ==
    LET pos == CHOOSE j \in DOMAIN inputFile.header : inputFile.header[j] = c
    IN  IF pos <= Len(inputFile.rows[k]) THEN inputFile.rows[k][pos] ELSE << >>

C2_EmptyOrNoUrlColumnReported ==
    ( /\ pc \in { "p_return", "crashed" }
      /\ inputFile.state = "ok"
      /\ \/ inputFile.rows = << >>
         \/ \A k \in DOMAIN inputFile.header :
               LowerStr(inputFile.header[k]) \notin UrlColumnNames )
    => /\ ~wrote
       /\ gets = << >>
       /\ printed /= << >>

\* The seed answers that count as a failed fetch: an exception (network error,
\* timeout) or a status outside 2xx.
FailedSeed(id) ==
    LET r == ResponseById(id) IN r.exc \/ r.status < 200 \/ r.status > 299

SeedPageLinks ==
    { [url |-> u, id |-> r.id, links |-> ContactLinks(NormalizeUrl(u), r.anchors)] :
        u \in { x \in UrlValues : IsValidUrl(x) },
        r \in { x \in SeedResponses : ~x.exc /\ x.status = HttpOk } }
\* The links found on the modelled contact pages (and on no seed page),
\* resolved against any URL requested.
LinksOnContactPages ==
    LET bases == { x \in UrlValues : IsValidUrl(x) }
                 \cup UNION { Range(x.links) : x \in SeedPageLinks }
        found == UNION { { ResolveLink(b, r.anchors[n].href) : n \in DOMAIN r.anchors } :
                         b \in bases, r \in ContactResponses }
    IN  found \ UNION { Range(x.links) : x \in SeedPageLinks }

\* C4: whatever the number of contact-like anchors on the seed page, at most 2
\* contact pages are requested, the first 2 contact-like links in document
\* order, a link found on a contact page is never requested, and at most 3 GETs
\* are issued per seed URL.
C4_AtMostTwoContactPages ==
    \A k \in DOMAIN data :
        LET all  == GetsOfRow(k)
            seed == SeedGetsOfRow(k)
            cont == ContactGetsOfRow(k)
        IN  /\ Len(all) <= 3
            /\ Len(cont) <= 2
            /\ cont /= << >> => Len(seed) = 1 /\ all[1].kind = "seed"
            /\ \A x \in SeedPageLinks :
                 (Len(seed) = 1 /\ x.url = data[k][urlColumn] /\ x.id = seed[1].resp) =>
                     /\ Len(cont) = Min(2, Len(x.links))
                     /\ \A n \in DOMAIN cont : cont[n].url = x.links[n]
            /\ \A n \in DOMAIN cont : cont[n].url \notin LinksOnContactPages

\* A seed page with three contact-like links was fetched, both contact pages
\* answered with a page that itself holds a contact-like link.
C4_Witness ==
    \E k \in DOMAIN data :
        /\ Len(GetsOfRow(k)) = 3
        /\ \E x \in SeedPageLinks :
              x.id = SeedGetsOfRow(k)[1].resp /\ Len(x.links) = 3
        /\ \A n \in 1..2 : ContactGetsOfRow(k)[n].resp = PageContact.id

\* The text of s before its first "?" (the whole of s without one)
BeforeQuery(s) == Split(s, "?")[1]

Cleaned == pc = "c_return" /\ outFile.exists

\* a and b are the same line but for the cell in (1-based) column col
SameButColumn(a, b, col) ==
    /\ Len(a) = Len(b)
    /\ \A n \in DOMAIN a : n /= col => a[n] = b[n]

\* C5 (as claimed): the cleaned table has the same number of data rows as the
\* input, in the same order, each differing from its input row at most in the
\* emails column.
C5_NoRowDropped ==
    Cleaned =>
        /\ Len(outFile.rows) = Len(inputFile.rows)
        /\ \A k \in DOMAIN outFile.rows :
              SameButColumn(outFile.rows[k], inputFile.rows[k], email_col_idx + 1)

\* The input lines long enough to hold the emails column
LongEnough == { k \in DOMAIN inputFile.rows : Len(inputFile.rows[k]) > email_col_idx }
NthLongEnough(j) ==
    CHOOSE k \in LongEnough : Cardinality({ m \in LongEnough : m < k }) = j - 1

\* C5 (amended): the cleaned table holds, in input order, exactly the input rows
\* that are long enough to have a cell in the emails column (shorter rows are
\* skipped), and each output row differs from its input row at most in the
\* emails column.
C5_OnlyShortRowsDropped ==
    Cleaned =>
        /\ outFile.header = inputFile.header
        /\ Len(outFile.rows) = Cardinality(LongEnough)
        /\ \A j \in DOMAIN outFile.rows :
              SameButColumn(outFile.rows[j], inputFile.rows[NthLongEnough(j)],
                            email_col_idx + 1)

\* A short first row was skipped, and the second row, whose addresses are all
\* invalid, was kept with an emptied emails cell.
C5_Witness ==
    /\ Cleaned
    /\ Len(inputFile.rows) = 2
    /\ LongEnough = { 2 }
    /\ Len(outFile.rows) = 1
    /\ inputFile.rows[2][email_col_idx + 1] /= << >>
    /\ outFile.rows[1][email_col_idx + 1] = << >>

\* The pieces of an emails field that survive clean_email, in order
ValidPieces(field) ==
    LET pieces == Split(field, ";")
        keep   == { k \in DOMAIN pieces : clean_email(pieces[k]) /= << >> }
    IN  [j \in 1..Cardinality(keep) |->
            clean_email(pieces[CHOOSE k \in keep :
                                  Cardinality({ m \in keep : m < k }) = j - 1])]

\* C6: for every row, the cleaned emails field is the ';'-join of clean_email
\* applied to each ';'-separated piece of the original field, empty results
\* removed and the original order kept; so the number of addresses after
\* cleaning never exceeds the number of pieces before, per row and in the
\* reported totals.
C6_CleanedFieldIsFilteredJoin ==
    /\ total_emails_after <= total_emails_before
    /\ Cleaned =>
         \A j \in DOMAIN outFile.rows :
            LET before == inputFile.rows[NthLongEnough(j)][email_col_idx + 1]
                after  == outFile.rows[j][email_col_idx + 1]
            IN  /\ after = Join(ValidPieces(before), ";")
                /\ Len(ValidPieces(before)) <= Len(Split(before, ";"))
                /\ after /= << >> => Len(Split(after, ";")) <= Len(Split(before, ";"))
                /\ \A p \in Range(Split(after, ";")) : after /= << >> => clean_email(p) = p

\* The field "a@b.com; not-an-email; c@d.io" was cleaned to "a@b.com;c@d.io" and
\* the totals went from 3 to 2.
C6_Witness ==
    /\ Cleaned
    /\ Len(outFile.rows) = 1
    /\ \E k \in DOMAIN inputFile.rows :
          /\ Len(inputFile.rows[k]) > email_col_idx
          /\ inputFile.rows[k][email_col_idx + 1] = FieldSpec
    /\ outFile.rows[1][email_col_idx + 1] = FieldCleaned
    /\ total_emails_before = 3
    /\ total_emails_after = 2
(***************************************************************************)
(* Properties of send_emails and main                                      *)
(***************************************************************************)
\* A required SMTP setting is absent (unset, or set to the empty string)
MissingRequired(e) ==
    \/ e.SMTP_FROM_EMAIL = NONE \/ e.SMTP_FROM_EMAIL = << >>
    \/ e.SMTP_SERVER = NONE \/ e.SMTP_SERVER = << >>
    \/ e.SMTP_USERNAME = NONE \/ e.SMTP_USERNAME = << >>
    \/ e.SMTP_PASSWORD = NONE \/ e.SMTP_PASSWORD = << >>

\* C7: when a required SMTP setting (sender address, host, username or password)
\* is absent, send_emails returns a sent count of 0 and no SMTP connection is
\* opened for any row or address, whatever the rows and the template hold: the
\* batch is skipped up front, no message is attempted.
C7_NoSendWithoutSmtpSettings ==
    MissingRequired(env) =>
        /\ smtpConns = << >>
        /\ sendCalls = << >>
        /\ sent_count = 0
        /\ pc = "s_return" => sendReturn = << 0 >>

\* send_emails has returned 0 with the password absent, although the template
\* was readable and a row held addresses.
C7_Witness ==
    /\ pc = "s_return"
    /\ sendReturn = << 0 >>
    /\ MissingRequired(env)
    /\ env.SMTP_FROM_EMAIL = SmtpFrom
    /\ templateFile.exists
    /\ \E k \in DOMAIN emails_data : Len(Recipients(emails_data[k])) = 2

\* C8: every address passed to send_email as an SMTP recipient is a validated
\* email, a string that conforms to the strict pattern as a whole.
C8_RecipientsAreValidated ==
    \A k \in DOMAIN sendCalls : clean_email(sendCalls[k].to) = sendCalls[k].to
(***************************************************************************)
(* Properties of template rendering                                        *)
(***************************************************************************)
Braces == { "{", "}" }
HasBrace(s) == \E k \in DOMAIN s : s[k] \in Braces

\* s holds a placeholder token: "{{", then, further on, "}}"
HasToken(s) ==
    \E i, j \in DOMAIN s :
        /\ i + 2 <= j
        /\ MatchAt(OpenBraces, s, i)
        /\ MatchAt(CloseBraces, s, j)

\* From position i on, every brace of t belongs to a "{{name}}" whose name
\* holds no brace
RECURSIVE WellFormedFrom(_, _)
WellFormedFrom(t, i) ==
    IF i > Len(t) THEN TRUE
    ELSE IF t[i] \notin Braces THEN WellFormedFrom(t, i + 1)
    ELSE /\ MatchAt(OpenBraces, t, i)
         /\ \E j \in (i + 2)..Len(t) :
                /\ \A m \in (i + 2)..(j - 1) : t[m] \notin Braces
                /\ MatchAt(CloseBraces, t, j)
                /\ WellFormedFrom(t, j + 2)
WellFormed(t) == WellFormedFrom(t, 1)

C11_NoSendWithoutFreshOutput ==
    ~wrote => sendCalls = << >>
=============================================================================
